---- MODULE Spec2Model ----
(***************************************************************************)
(* Model of the ledger calculator: src/domain/loans/ledger_calculator.py   *)
(* (class LedgerCalculator) as it is driven by the `balances` command of   *)
(* src/cli.py.                                                             *)
(*                                                                         *)
(* Money is Decimal in the code and exact; here a money value is an        *)
(* integer number of cents (1000.00 is 100000).  A date is a day number    *)
(* (the code parses 'YYYY-MM-DD' strings and subtracts them into whole     *)
(* days).  The interest rate is the rational num/den, 0.00035 is           *)
(* 35/100000.  An accrual whose product is not a whole number of cents is  *)
(* outside the grid of the model: the event that would cause it is not     *)
(* taken (guard OnGrid), the same way a counter is capped.                 *)
(***************************************************************************)
EXTENDS Integers, Sequences, FiniteSets

\* ------------------------------------------------------------------ bounds
\* Longest event stream the model replays.
MaxEvents == 3

\* Longest event stream that is replayed by a second run.
MaxRerunEvents == 2

\* Largest argument of the calls of _subtract_smaller_from_larger that are
\* followed on their own.
MaxOffsetAmount == 10

\* Event amounts, in cents: 0, 3.50, 300, 500, 1000, 1200.
Amounts == {0, 350, 30000, 50000, 100000, 120000}

\* Days on which events happen and cutoff days.
Dates == {0, 5, 10}

\* interest_rate default of LedgerCalculator.__init__: Decimal('0.00035').
DefaultRate == [num |-> 35, den |-> 100000]

\* Rates a run is constructed with: none, the default, and 100% a day (a
\* rate under which every accrual is a whole number of cents).
Rates == {[num |-> 0, den |-> 1], DefaultRate, [num |-> 1, den |-> 1]}

\* last_interest_date_calculated = None
NoDate == -1

\* The loop variable `event` before the first event is read.
NoEvent == [type |-> "none", amount |-> 0, date_created |-> NoDate, id |-> 0]

VARIABLES
    overall_advance_balance,
    overall_interest_payable_balance,
    overall_interest_paid,
    overall_payments_for_future,
    last_interest_date_calculated,
    advances,
    end_date,
    interest_rate,
    event,
    n_events,
    pc,
    history,
    stream,
    snapshots,
    offset_call

vars == <<overall_advance_balance, overall_interest_payable_balance,
          overall_interest_paid, overall_payments_for_future,
          last_interest_date_calculated, advances, end_date, interest_rate,
          event, n_events, pc, history, stream, snapshots, offset_call>>

\* The fields of a LedgerCalculator that a run changes.
ledger_vars == <<overall_advance_balance, overall_interest_payable_balance,
                 overall_interest_paid, overall_payments_for_future,
                 last_interest_date_calculated, advances>>

\* ------------------------------------------------------- pure functions

\* _subtract_smaller_from_larger with the difference always first.
subtract_smaller_from_larger_difference_first(amount1, amount2) ==
    IF amount1 < amount2
    THEN <<amount2 - amount1, 0>>
    ELSE <<amount1 - amount2, 0>>

\* _subtract_smaller_from_larger: the pair in the order of its inputs.
subtract_smaller_from_larger(amount1, amount2) ==
    IF amount1 < amount2
    THEN <<0, amount2 - amount1>>
    ELSE <<amount1 - amount2, 0>>

\* The product without the number of days.
InterestProduct_one_day(balance, rate, total_days) ==
    (balance * rate.num) \div rate.den

\* overall_advance_balance * interest_rate * total_days, in cents.
InterestProduct(balance, rate, total_days) ==
    (balance * rate.num * total_days) \div rate.den

\* The product is a whole number of cents.
OnGrid(balance, rate, total_days) ==
    (balance * rate.num * total_days) % rate.den = 0

\* total_days of an accrual to interest_date (0 on the first call, which
\* returns before computing it).
TotalDays(last, interest_date) ==
    IF last = NoDate THEN 0 ELSE interest_date - last

\* calculate_balances: end_date + timedelta(days=1), without the extra day.
EndInterestDate_same_day(date) == date

\* calculate_balances: end_date + timedelta(days=1).
EndInterestDate(date) == date + 1

\* _calculate_interest_to_pay counting both end days of the interval.
calculate_interest_to_pay_inclusive(last, payable, balance, rate, interest_date) ==
    IF last = NoDate
    THEN [last |-> interest_date, payable |-> payable]
    ELSE [last |-> interest_date,
          payable |-> payable + (balance * rate.num * (interest_date - last + 1))
                                \div rate.den]

\* _calculate_interest_to_pay: the new (last_interest_date_calculated,
\* overall_interest_payable_balance).
calculate_interest_to_pay(last, payable, balance, rate, interest_date) ==
    IF last = NoDate
    THEN [last |-> interest_date, payable |-> payable]
    ELSE [last |-> interest_date,
          payable |-> payable
                      + InterestProduct(balance, rate, interest_date - last)]

\* _has_account_balance / _has_interest_balance_to_pay /
\* _has_advanced_balances_to_pay: bool(Decimal) is "not zero".
Truthy(amount) == amount # 0

\* _pay_with_account_balance with the arguments of the offset swapped.
pay_with_account_balance_swapped(advanced_amount, credit) ==
    IF Truthy(credit)
    THEN subtract_smaller_from_larger(credit, advanced_amount)
    ELSE <<advanced_amount, credit>>

\* _pay_with_account_balance that offsets the advance and keeps the credit.
pay_with_account_balance_keep_credit(advanced_amount, credit) ==
    IF Truthy(credit)
    THEN <<subtract_smaller_from_larger(advanced_amount, credit)[1], credit>>
    ELSE <<advanced_amount, credit>>

\* _pay_with_account_balance: <<balance of the new advance, new credit>>.
pay_with_account_balance(advanced_amount, credit) ==
    IF Truthy(credit)
    THEN subtract_smaller_from_larger(advanced_amount, credit)
    ELSE <<advanced_amount, credit>>

\* _pay_interest without the comparison: the payment is always subtracted.
pay_interest_unchecked(payment_amount, payable, paid) ==
    [payment_amount |-> 0,
     payable |-> payable - payment_amount,
     paid |-> paid + payment_amount]

\* _pay_interest with overall_interest_paid assigned instead of increased.
pay_interest_assign(payment_amount, payable, paid) ==
    IF payment_amount >= payable
    THEN [payment_amount |-> payment_amount - payable,
          payable |-> 0,
          paid |-> payable]
    ELSE [payment_amount |-> 0,
          payable |-> payable - payment_amount,
          paid |-> payment_amount]

\* _pay_interest leaving the payment as it was when it does not cover the
\* interest.
pay_interest_keep_payment(payment_amount, payable, paid) ==
    IF payment_amount >= payable
    THEN [payment_amount |-> payment_amount - payable,
          payable |-> 0,
          paid |-> paid + payable]
    ELSE [payment_amount |-> payment_amount,
          payable |-> payable - payment_amount,
          paid |-> paid + payment_amount]

\* _pay_interest: the payment left, the new payable balance, the new paid total.
pay_interest(payment_amount, payable, paid) ==
    IF payment_amount >= payable
    THEN [payment_amount |-> payment_amount - payable,
          payable |-> 0,
          paid |-> paid + payable]
    ELSE [payment_amount |-> 0,
          payable |-> payable - payment_amount,
          paid |-> paid + payment_amount]

\* The loop of _pay_advanced_balances from index i on: the advances after
\* the walk and the amount_to_reduce left.
RECURSIVE WalkAdvances(_, _, _)
WalkAdvances(advs, i, amount_to_reduce) ==
    IF i > Len(advs)
    THEN [advances |-> advs, amount_to_reduce |-> amount_to_reduce]
    ELSE IF Truthy(advs[i].current_balance) /\ Truthy(amount_to_reduce)
         THEN LET r == subtract_smaller_from_larger(advs[i].current_balance,
                                                    amount_to_reduce)
              IN WalkAdvances([advs EXCEPT ![i].current_balance = r[1]],
                              i + 1, r[2])
         ELSE WalkAdvances(advs, i + 1, amount_to_reduce)

\* The loop of _pay_advanced_balances walking from the newest advance down.
RECURSIVE WalkNewestFirst(_, _, _)
WalkNewestFirst(advs, i, amount_to_reduce) ==
    IF i < 1
    THEN [advances |-> advs, amount_to_reduce |-> amount_to_reduce]
    ELSE IF Truthy(advs[i].current_balance) /\ Truthy(amount_to_reduce)
         THEN LET r == subtract_smaller_from_larger(advs[i].current_balance,
                                                    amount_to_reduce)
              IN WalkNewestFirst([advs EXCEPT ![i].current_balance = r[1]],
                                 i - 1, r[2])
         ELSE WalkNewestFirst(advs, i - 1, amount_to_reduce)

\* The aggregate after the walk, never reset to zero.
BalanceAfterWalk_no_reset(balance, payment_amount, amount_to_reduce) ==
    balance - payment_amount

\* The aggregate after the walk of _pay_advanced_balances.
BalanceAfterWalk(balance, payment_amount, amount_to_reduce) ==
    IF Truthy(amount_to_reduce) THEN 0 ELSE balance - payment_amount

\* _pay_advanced_balances paying the newest advance first.
pay_advanced_balances_newest_first(payment_amount, advs, balance) ==
    LET w == WalkNewestFirst(advs, Len(advs), payment_amount)
    IN [advances |-> w.advances,
        balance |-> BalanceAfterWalk(balance, payment_amount, w.amount_to_reduce),
        payment_amount |-> w.amount_to_reduce]

\* _pay_advanced_balances dropping the advances it has paid off.
pay_advanced_balances_drop_paid(payment_amount, advs, balance) ==
    LET w == WalkAdvances(advs, 1, payment_amount)
        open(advance) == advance.current_balance # 0
    IN [advances |-> SelectSeq(w.advances, open),
        balance |-> BalanceAfterWalk(balance, payment_amount, w.amount_to_reduce),
        payment_amount |-> w.amount_to_reduce]

\* _pay_advanced_balances: advances, aggregate and the payment left.
pay_advanced_balances(payment_amount, advs, balance) ==
    LET w == WalkAdvances(advs, 1, payment_amount)
    IN [advances |-> w.advances,
        balance |-> BalanceAfterWalk(balance, payment_amount, w.amount_to_reduce),
        payment_amount |-> w.amount_to_reduce]

\* The last line of _pay assigning instead of adding.
CreditAfterPay_assign(credit, payment_amount) == payment_amount

\* The last line of _pay: overall_payments_for_future += payment_amount.
CreditAfterPay(credit, payment_amount) == credit + payment_amount

\* _pay, on the ledger L = [balance, payable, paid, credit, advances].
pay(payment_amount, L) ==
    LET hasInterest == Truthy(L.payable)
        i  == pay_interest(payment_amount, L.payable, L.paid)
        p1 == IF hasInterest THEN i.payment_amount ELSE payment_amount
        L1 == IF hasInterest
              THEN [L EXCEPT !.payable = i.payable, !.paid = i.paid]
              ELSE L
        hasAdvances == Truthy(L1.balance)
        a  == pay_advanced_balances(p1, L1.advances, L1.balance)
        p2 == IF hasAdvances THEN a.payment_amount ELSE p1
        L2 == IF hasAdvances
              THEN [L1 EXCEPT !.advances = a.advances, !.balance = a.balance]
              ELSE L1
    IN IF hasInterest /\ ~Truthy(p1) THEN L1
       ELSE IF hasAdvances /\ ~Truthy(p2) THEN L2
       ELSE [L2 EXCEPT !.credit = CreditAfterPay(L2.credit, p2)]

\* The record with the amount net of the offset as its initial amount.
AdvanceRecord_net(ev, event_amount, current_balance_for_this_advance) ==
    [id |-> ev.id,
     date |-> ev.date_created,
     initial_amount |-> current_balance_for_this_advance,
     current_balance |-> current_balance_for_this_advance]

\* The record _advance_event_handler appends.
AdvanceRecord(ev, event_amount, current_balance_for_this_advance) ==
    [id |-> ev.id,
     date |-> ev.date_created,
     initial_amount |-> event_amount,
     current_balance |-> current_balance_for_this_advance]

\* ------------------------------------------------------------- the run

\* The mutable ledger of the run as one record.
Ledger ==
    [balance |-> overall_advance_balance,
     payable |-> overall_interest_payable_balance,
     paid |-> overall_interest_paid,
     credit |-> overall_payments_for_future,
     advances |-> advances]

\* What `balances` prints of a finished run: the advances and the four
\* aggregates.
Snapshot ==
    [advances |-> advances,
     overall_advance_balance |-> overall_advance_balance,
     overall_interest_payable_balance |-> overall_interest_payable_balance,
     overall_interest_paid |-> overall_interest_paid,
     overall_payments_for_future |-> overall_payments_for_future]

\* Bookkeeping of the stream read so far, kept beside the ledger for the
\* properties: the payment amounts, the advance amounts and the interest of
\* the accruals, each summed.
NoHistory == [payments |-> 0, advances |-> 0, interest |-> 0]

\* The interest of the interval an accrual to `date` closes.
IntervalInterest(date) ==
    IF last_interest_date_calculated = NoDate THEN 0
    ELSE (overall_advance_balance * interest_rate.num
          * (date - last_interest_date_calculated)) \div interest_rate.den

\* No call of _subtract_smaller_from_larger is being followed.
NoCall == [amount1 |-> 0, amount2 |-> 0, forward |-> <<>>, mirror |-> <<>>]

\* A LedgerCalculator as __init__ leaves its ledger fields.
Fresh ==
    /\ overall_advance_balance = 0
    /\ overall_interest_payable_balance = 0
    /\ overall_interest_paid = 0
    /\ overall_payments_for_future = 0
    /\ last_interest_date_calculated = NoDate
    /\ advances = <<>>

\* LedgerCalculator.__init__, for a cutoff and a rate.
Init ==
    /\ end_date \in Dates
    /\ interest_rate \in Rates
    /\ Fresh
    /\ event = NoEvent
    /\ n_events = 0
    /\ pc = "events"
    /\ history = NoHistory
    /\ stream = <<>>
    /\ snapshots = <<>>
    /\ offset_call = NoCall

\* The next row the cursor of `balances` yields: dated no later than the
\* cutoff and no earlier than the row before it (the query's where and
\* order by), with a non-negative amount.
NextEvent(type, amount, date) ==
    /\ pc = "events"
    /\ n_events < MaxEvents
    /\ date <= end_date
    /\ last_interest_date_calculated # NoDate => date >= last_interest_date_calculated
    /\ OnGrid(overall_advance_balance, interest_rate,
              TotalDays(last_interest_date_calculated, date))
    /\ event' = [type |-> type, amount |-> amount, date_created |-> date,
                 id |-> n_events + 1]
    /\ n_events' = n_events + 1

\* event_handlers maps every kind to the handler of payments.
event_handlers_else_payment(type) ==
    IF type = "advance" THEN "advance" ELSE "payment"

\* self.event_handlers[event['type']]: the handler of a kind, or the
\* KeyError of a kind that is no key of the dict.
event_handlers(type) ==
    IF type \in {"advance", "payment"} THEN type ELSE "KeyError"

\* _advance_event_handler(event)
advance_event_handler(ev) ==
    LET acc == calculate_interest_to_pay(
                   last_interest_date_calculated,
                   overall_interest_payable_balance,
                   overall_advance_balance, interest_rate, ev.date_created)
        off == pay_with_account_balance(ev.amount, overall_payments_for_future)
    IN /\ last_interest_date_calculated' = acc.last
       /\ overall_interest_payable_balance' = acc.payable
       /\ overall_payments_for_future' = off[2]
       /\ advances' = Append(advances, AdvanceRecord(ev, ev.amount, off[1]))
       /\ overall_advance_balance' = overall_advance_balance + off[1]
       /\ UNCHANGED overall_interest_paid
       /\ history' = [history EXCEPT
                         !.advances = @ + ev.amount,
                         !.interest = @ + IntervalInterest(ev.date_created)]

\* _payment_event_handler(event)
payment_event_handler(ev) ==
    LET acc == calculate_interest_to_pay(
                   last_interest_date_calculated,
                   overall_interest_payable_balance,
                   overall_advance_balance, interest_rate, ev.date_created)
        L == pay(ev.amount, [Ledger EXCEPT !.payable = acc.payable])
    IN /\ last_interest_date_calculated' = acc.last
       /\ overall_interest_payable_balance' = L.payable
       /\ overall_interest_paid' = L.paid
       /\ overall_advance_balance' = L.balance
       /\ overall_payments_for_future' = L.credit
       /\ advances' = L.advances
       /\ history' = [history EXCEPT
                         !.payments = @ + ev.amount,
                         !.interest = @ + IntervalInterest(ev.date_created)]

\* The body of the loop of calculate_balances:
\* self.event_handlers[event['type']](event).  A KeyError leaves the loop
\* and calculate_balances with the ledger as it is.
Dispatch(ev) ==
    LET handler == event_handlers(ev.type)
    IN IF handler = "advance"
       THEN advance_event_handler(ev) /\ pc' = pc
       ELSE IF handler = "payment"
       THEN payment_event_handler(ev) /\ pc' = pc
       ELSE pc' = "failed" /\ UNCHANGED <<ledger_vars, history>>

\* An event of kind advance is read and handled.
AdvanceEvent ==
    \E amount \in Amounts, date \in Dates :
        /\ NextEvent("advance", amount, date)
        /\ Dispatch(event')
        /\ UNCHANGED <<end_date, interest_rate, stream, snapshots, offset_call>>

\* An event of kind payment is read and handled.
PaymentEvent ==
    \E amount \in Amounts, date \in Dates :
        /\ NextEvent("payment", amount, date)
        /\ Dispatch(event')
        /\ UNCHANGED <<end_date, interest_rate, stream, snapshots, offset_call>>

\* Kinds of event that are neither advance nor payment.
OtherKinds == {"refund"}

\* Amounts of the events of another kind: the lookup of the handler fails
\* before the amount is read, so one amount stands for all.
OtherAmounts == {100000}

\* An event of another kind is read.
InvalidEvent ==
    \E type \in OtherKinds, amount \in OtherAmounts, date \in Dates :
        /\ NextEvent(type, amount, date)
        /\ Dispatch(event')
        /\ UNCHANGED <<end_date, interest_rate, stream, snapshots, offset_call>>

\* calculate_balances after its loop: the accrual to end_date + 1 day.
FinalAccrual ==
    /\ pc = "events"
    /\ OnGrid(overall_advance_balance, interest_rate,
              TotalDays(last_interest_date_calculated,
                        EndInterestDate(end_date)))
    /\ LET acc == calculate_interest_to_pay(
                      last_interest_date_calculated,
                      overall_interest_payable_balance,
                      overall_advance_balance, interest_rate,
                      EndInterestDate(end_date))
       IN /\ last_interest_date_calculated' = acc.last
          /\ overall_interest_payable_balance' = acc.payable
    /\ history' = [history EXCEPT
                      !.interest = @ + IntervalInterest(end_date + 1)]
    /\ pc' = "done"
    /\ UNCHANGED <<overall_advance_balance, overall_interest_paid,
                   overall_payments_for_future, advances, end_date,
                   interest_rate, event, n_events, stream, snapshots,
                   offset_call>>

Next == AdvanceEvent \/ PaymentEvent \/ InvalidEvent \/ FinalAccrual

Spec == Init /\ [][Next]_vars

\* --------------------------------------------- the computation run twice

\* __init__ with the advances list shared with the calculator before it.
LedgerInit_shared_advances(previous) ==
    [balance |-> 0, payable |-> 0, paid |-> 0, credit |-> 0,
     last |-> NoDate, advances |-> previous.advances]

\* The ledger fields LedgerCalculator.__init__ sets, whatever the ledger
\* of the calculator constructed before it was.
LedgerInit(previous) ==
    [balance |-> 0, payable |-> 0, paid |-> 0, credit |-> 0,
     last |-> NoDate, advances |-> <<>>]

\* An event of the first run, remembered for the second.
FirstRunEvent ==
    \E type \in {"advance", "payment"}, amount \in Amounts, date \in Dates :
        /\ snapshots = <<>>
        /\ n_events < MaxRerunEvents
        /\ NextEvent(type, amount, date)
        /\ Dispatch(event')
        /\ stream' = Append(stream, event')
        /\ UNCHANGED <<end_date, interest_rate, snapshots, offset_call>>

\* The end of a run; the second run ends when it has read the whole stream.
RunFinalAccrual ==
    /\ snapshots # <<>> => n_events = Len(stream)
    /\ FinalAccrual

\* `balances` is run again with the same cutoff on the same events: the
\* snapshot of the first run is kept for comparison and a new
\* LedgerCalculator is constructed.
NewRun ==
    /\ pc = "done"
    /\ snapshots = <<>>
    /\ snapshots' = <<Snapshot>>
    /\ LET f == LedgerInit(Ledger)
       IN /\ overall_advance_balance' = f.balance
          /\ overall_interest_payable_balance' = f.payable
          /\ overall_interest_paid' = f.paid
          /\ overall_payments_for_future' = f.credit
          /\ last_interest_date_calculated' = f.last
          /\ advances' = f.advances
    /\ event' = NoEvent
    /\ n_events' = 0
    /\ pc' = "events"
    /\ history' = NoHistory
    /\ UNCHANGED <<end_date, interest_rate, stream, offset_call>>

\* The second run reads the next event of the same stream.
ReplayEvent ==
    /\ snapshots # <<>>
    /\ pc = "events"
    /\ n_events < Len(stream)
    /\ event' = stream[n_events + 1]
    /\ n_events' = n_events + 1
    /\ Dispatch(event')
    /\ UNCHANGED <<end_date, interest_rate, stream, snapshots, offset_call>>

NextRerun == FirstRunEvent \/ RunFinalAccrual \/ NewRun \/ ReplayEvent

SpecRerun == Init /\ [][NextRerun]_vars

\* ------------------------------- _subtract_smaller_from_larger on its own

\* A pair of non-negative amounts, before either call.
InitOffset ==
    /\ end_date = 0
    /\ interest_rate = DefaultRate
    /\ Fresh
    /\ event = NoEvent
    /\ n_events = 0
    /\ pc = "events"
    /\ history = NoHistory
    /\ stream = <<>>
    /\ snapshots = <<>>
    /\ \E x \in 0..MaxOffsetAmount, y \in 0..MaxOffsetAmount :
           offset_call = [NoCall EXCEPT !.amount1 = x, !.amount2 = y]

\* _subtract_smaller_from_larger(amount1, amount2)
CallForward ==
    /\ offset_call.forward = <<>>
    /\ offset_call' = [offset_call EXCEPT
           !.forward = <<subtract_smaller_from_larger(offset_call.amount1,
                                                      offset_call.amount2)>>]
    /\ UNCHANGED <<ledger_vars, end_date, interest_rate, event, n_events, pc,
                   history, stream, snapshots>>

\* _subtract_smaller_from_larger(amount2, amount1)
CallMirror ==
    /\ offset_call.mirror = <<>>
    /\ offset_call' = [offset_call EXCEPT
           !.mirror = <<subtract_smaller_from_larger(offset_call.amount2,
                                                     offset_call.amount1)>>]
    /\ UNCHANGED <<ledger_vars, end_date, interest_rate, event, n_events, pc,
                   history, stream, snapshots>>

NextOffset == CallForward \/ CallMirror

SpecOffset == InitOffset /\ [][NextOffset]_vars

\* ------------------------------------------------------------ properties

\* Sum of current_balance over the records of a sequence of advances.
RECURSIVE SumBalances(_)
SumBalances(advs) ==
    IF advs = <<>> THEN 0
    ELSE advs[1].current_balance + SumBalances(Tail(advs))

Min(a, b) == IF a < b THEN a ELSE b

\* The step reads one event of the stream and handles it.
EventStep == n_events' = n_events + 1 /\ pc' = "events"
PaymentStep == EventStep /\ event'.type = "payment"
AdvanceStep == EventStep /\ event'.type = "advance"
\* The step is the accrual that follows the stream.
FinalStep == pc = "events" /\ pc' = "done"

\* C1 (P1 conservation): in every state, during the stream and after the
\* final accrual, overall_advance_balance is the sum of current_balance over
\* all advance records.
C1_Conservation == overall_advance_balance = SumBalances(advances)

\* A payment has retired the first advance and part of the second.
C1_Witness ==
    /\ event.type = "payment"
    /\ Len(advances) = 2
    /\ advances[1].initial_amount > 0
    /\ advances[1].current_balance = 0
    /\ advances[2].current_balance > 0
    /\ advances[2].current_balance < advances[2].initial_amount

\* C2 (P2 non-negativity): interest payable, interest paid, the credit for
\* future advances and every advance's current balance are never negative,
\* in every state of the run and in the final snapshot.
C2_NonNegative ==
    /\ overall_interest_payable_balance >= 0
    /\ overall_interest_paid >= 0
    /\ overall_payments_for_future >= 0
    /\ \A i \in 1..Len(advances) : advances[i].current_balance >= 0

\* A final snapshot after a payment that covered only part of the interest.
C2_Witness ==
    /\ pc = "done"
    /\ event.type = "payment"
    /\ overall_interest_paid > 0
    /\ overall_interest_payable_balance > 0
    /\ overall_advance_balance > 0

\* C3 (P4 FIFO allocation): for an older advance A and a newer advance B,
\* both with a positive balance, a payment smaller than A's balance leaves B
\* unchanged, and no payment changes B while A keeps a positive balance
\* after it.
C3_Fifo ==
    [][PaymentStep =>
        \A a \in 1..Len(advances) : \A b \in 1..Len(advances) :
            (a < b /\ advances[a].current_balance > 0
                   /\ advances[b].current_balance > 0) =>
                /\ event'.amount < advances[a].current_balance =>
                       advances'[b].current_balance = advances[b].current_balance
                /\ advances'[a].current_balance > 0 =>
                       advances'[b].current_balance = advances[b].current_balance
      ]_vars

\* A payment has reduced the older of two open advances and not the newer.
C3_Witness ==
    /\ event.type = "payment"
    /\ event.amount > 0
    /\ overall_interest_paid = 0
    /\ Len(advances) = 2
    /\ advances[1].current_balance > 0
    /\ advances[1].current_balance < advances[1].initial_amount
    /\ advances[2].current_balance > 0
    /\ advances[2].current_balance = advances[2].initial_amount

\* Interest payable once the step's accrual to `date` has run, before the
\* step's event takes effect.
PayableAfterAccrual(date) ==
    overall_interest_payable_balance
    + (IF last_interest_date_calculated = NoDate THEN 0
       ELSE (overall_advance_balance * interest_rate.num
             * (date - last_interest_date_calculated)) \div interest_rate.den)

\* The current balances of a sequence of advances.
Balances(advs) == [i \in 1..Len(advs) |-> advs[i].current_balance]

\* C4 (payment waterfall): a payment p met by interest payable ip (after the
\* accrual), principal pr and credit c pays min(p, ip) of interest, then
\* min(r, pr) of principal with r = p - min(p, ip), and banks the rest; a
\* payment of exactly ip + pr leaves principal 0 and the credit as it was;
\* 1200 against advances of 1000 and 500 with no interest payable leaves
\* balances 0 and 300 and principal 300.
C4_Waterfall ==
    [][PaymentStep =>
        LET p  == event'.amount
            ip == PayableAfterAccrual(event'.date_created)
            pr == overall_advance_balance
            c  == overall_payments_for_future
            r  == p - Min(p, ip)
        IN /\ overall_interest_paid' = overall_interest_paid + Min(p, ip)
           /\ overall_interest_payable_balance' = ip - Min(p, ip)
           /\ overall_advance_balance' = pr - Min(r, pr)
           /\ overall_payments_for_future' = c + (r - Min(r, pr))
           /\ p = ip + pr =>
                  /\ overall_advance_balance' = 0
                  /\ overall_payments_for_future' = c
           /\ (Balances(advances) = <<100000, 50000>> /\ ip = 0 /\ p = 120000) =>
                  /\ Balances(advances') = <<0, 30000>>
                  /\ overall_advance_balance' = 30000
      ]_vars

\* 1200 has been paid against advances of 1000 and 500 with no interest due.
C4_Witness ==
    /\ event.type = "payment"
    /\ event.amount = 120000
    /\ overall_interest_paid = 0
    /\ overall_interest_payable_balance = 0
    /\ Len(advances) = 2
    /\ advances[1].initial_amount = 100000
    /\ advances[2].initial_amount = 50000
    /\ Balances(advances) = <<0, 30000>>

\* The run of scenario 1 has ended: one advance of 1000 on day 0, no
\* payment, cutoff on day 10, rate 0.00035.
Scenario1Done ==
    /\ pc = "done"
    /\ interest_rate = DefaultRate
    /\ end_date = 10
    /\ n_events = 1
    /\ Len(advances) = 1
    /\ advances[1].date = 0
    /\ advances[1].initial_amount = 100000

\* C5 as stated (scenario 1): the snapshot has interest payable 3.50 (ten
\* days of interest), principal 1000 and no interest paid.
C5_Scenario1_TenDays ==
    Scenario1Done =>
        /\ overall_interest_payable_balance = 350
        /\ overall_advance_balance = 100000
        /\ overall_interest_paid = 0

\* C5 as amended (scenario 1): the snapshot has interest payable 3.85, the
\* interest of the eleven days from day 0 to the day after the cutoff,
\* principal 1000 and no interest paid.
C5_Scenario1_ElevenDays ==
    Scenario1Done =>
        /\ overall_interest_payable_balance = 385
        /\ overall_advance_balance = 100000
        /\ overall_interest_paid = 0

\* Scenario 1 has run to its snapshot.
C5_Witness == Scenario1Done /\ overall_interest_payable_balance > 0

\* C6 (inclusive cutoff accrual): the step that ends the run adds to
\* interest payable the principal x rate x the days from the last event's
\* date to the day after the cutoff and changes nothing else; with no event
\* at all the four aggregates of the snapshot are zero; nothing follows it.
C6_FinalAccrual ==
    [][/\ FinalStep =>
            /\ n_events > 0 =>
                 overall_interest_payable_balance' * interest_rate.den =
                     overall_interest_payable_balance * interest_rate.den
                     + overall_advance_balance * interest_rate.num
                       * ((end_date + 1) - event.date_created)
            /\ n_events = 0 =>
                 /\ overall_interest_payable_balance' = 0
                 /\ overall_advance_balance' = 0
                 /\ overall_interest_paid' = 0
                 /\ overall_payments_for_future' = 0
            /\ UNCHANGED <<overall_advance_balance, overall_interest_paid,
                           overall_payments_for_future, advances>>
       /\ pc = "done" => UNCHANGED vars
      ]_vars

\* A snapshot whose final accrual added interest after the last event.
C6_Witness ==
    /\ pc = "done"
    /\ n_events > 0
    /\ event.date_created <= end_date
    /\ overall_interest_paid = 0
    /\ overall_interest_payable_balance > 0
    /\ last_interest_date_calculated = end_date + 1

\* The record the step appended.
NewRecord == advances'[Len(advances')]

\* C7 (accrual rule): every step that accrues (an event, or the end of the
\* run) moves last_interest_date_calculated to its date; the first accrual
\* of a run adds no interest; every later one adds the principal as it was
\* before the step x rate x the whole days since the last accrual, which is
\* nothing for a second event on the same date.
C7_Accrual ==
    [][(EventStep \/ FinalStep) =>
        LET date  == IF FinalStep THEN end_date + 1 ELSE event'.date_created
            added == (overall_interest_payable_balance' + overall_interest_paid')
                     - (overall_interest_payable_balance + overall_interest_paid)
        IN /\ last_interest_date_calculated' = date
           /\ last_interest_date_calculated = NoDate => added = 0
           /\ last_interest_date_calculated # NoDate =>
                  added * interest_rate.den =
                      overall_advance_balance * interest_rate.num
                      * (date - last_interest_date_calculated)
           /\ last_interest_date_calculated = date => added = 0
      ]_vars

\* A second advance on a later day has accrued interest on the first
\* advance alone.
C7_Witness ==
    /\ event.type = "advance"
    /\ n_events = 2
    /\ Len(advances) = 2
    /\ advances[2].current_balance > 0
    /\ advances[2].date > advances[1].date
    /\ overall_interest_payable_balance > 0
    /\ overall_interest_payable_balance * interest_rate.den =
           advances[1].current_balance * interest_rate.num
           * (advances[2].date - advances[1].date)

\* C8 (advance offset): an advance of amount a met by credit c appends one
\* record with initial_amount a and current_balance a - min(a, c), leaves
\* the credit at c - min(a, c) and adds a - min(a, c) to the principal; an
\* advance of 300 met by a credit of 500 gets balance 0 and leaves credit 200.
C8_AdvanceOffset ==
    [][AdvanceStep =>
        LET a == event'.amount
            c == overall_payments_for_future
        IN /\ Len(advances') = Len(advances) + 1
           /\ SubSeq(advances', 1, Len(advances)) = advances
           /\ NewRecord.initial_amount = a
           /\ NewRecord.current_balance = a - Min(a, c)
           /\ overall_payments_for_future' = c - Min(a, c)
           /\ overall_advance_balance' = overall_advance_balance + (a - Min(a, c))
           /\ (c = 50000 /\ a = 30000) =>
                  /\ NewRecord.current_balance = 0
                  /\ overall_payments_for_future' = 20000
      ]_vars

\* A payment of 500 and then an advance of 300: balance 0, credit 200.
C8_Witness ==
    /\ event.type = "advance"
    /\ event.amount = 30000
    /\ n_events = 2
    /\ Len(advances) = 1
    /\ advances[1].initial_amount = 30000
    /\ advances[1].current_balance = 0
    /\ overall_payments_for_future = 20000

\* C9 as stated (advance data model): the record an advance appends has as
\* initial_amount the amount drawn net of the offset from the credit, and
\* its current_balance at creation equals its initial_amount.
C9_InitialAmountNet ==
    [][AdvanceStep =>
        /\ NewRecord.initial_amount =
               event'.amount - Min(event'.amount, overall_payments_for_future)
        /\ NewRecord.current_balance = NewRecord.initial_amount
      ]_vars

\* C9 as amended: the record's initial_amount is the full amount of the
\* event, before any offset; its current_balance at creation is that amount
\* net of the offset from the credit, and equals initial_amount exactly when
\* nothing was offset.
C9_InitialAmountGross ==
    [][AdvanceStep =>
        LET offset == Min(event'.amount, overall_payments_for_future)
        IN /\ NewRecord.initial_amount = event'.amount
           /\ NewRecord.current_balance = NewRecord.initial_amount - offset
           /\ (NewRecord.current_balance = NewRecord.initial_amount) <=> (offset = 0)
      ]_vars

\* An advance partly offset by credit: its balance starts below its
\* initial amount.
C9_Witness ==
    /\ event.type = "advance"
    /\ Len(advances) >= 1
    /\ advances[Len(advances)].id = event.id
    /\ advances[Len(advances)].initial_amount = event.amount
    /\ advances[Len(advances)].current_balance > 0
    /\ advances[Len(advances)].current_balance < event.amount

\* C10 (P3 monotonic interest paid): overall_interest_paid never decreases
\* from one step to the next, and only a payment changes it.
C10_InterestPaidMonotonic ==
    [][/\ overall_interest_paid' >= overall_interest_paid
       /\ overall_interest_paid' # overall_interest_paid => PaymentStep
      ]_vars

\* A second payment of interest has added to what an earlier one paid.
C10_Witness ==
    /\ event.type = "payment"
    /\ event.amount > 0
    /\ overall_interest_paid > event.amount

\* C11 (waterfall stops at interest): a payment no larger than the interest
\* payable after the accrual pays that much interest and changes nothing
\* else: no advance record, not the principal, not the credit.
C11_StopsAtInterest ==
    [][(PaymentStep
        /\ event'.amount <= PayableAfterAccrual(event'.date_created)) =>
        /\ overall_interest_payable_balance' =
               PayableAfterAccrual(event'.date_created) - event'.amount
        /\ overall_interest_paid' = overall_interest_paid + event'.amount
        /\ UNCHANGED <<advances, overall_advance_balance,
                       overall_payments_for_future>>
      ]_vars

\* A payment of 3.50 has covered the interest of ten days on an advance of
\* 1000 and left the advance at 1000.
C11_Witness ==
    /\ event.type = "payment"
    /\ event.amount = 350
    /\ interest_rate = DefaultRate
    /\ overall_interest_paid = 350
    /\ overall_interest_payable_balance = 0
    /\ Len(advances) = 1
    /\ advances[1].current_balance = 100000
    /\ overall_advance_balance = 100000
    /\ overall_payments_for_future = 0

\* C12 (P5 offset symmetry): for non-negative x and y the result of
\* _subtract_smaller_from_larger(y, x) is the result of (x, y) with its two
\* components swapped, and each component is its own input less the smaller
\* input, also when x = y.
C12_OffsetSymmetry ==
    LET x == offset_call.amount1
        y == offset_call.amount2
    IN /\ offset_call.forward # <<>> =>
              offset_call.forward[1] = <<x - Min(x, y), y - Min(x, y)>>
       /\ (offset_call.forward # <<>> /\ offset_call.mirror # <<>>) =>
              /\ offset_call.mirror[1][1] = offset_call.forward[1][2]
              /\ offset_call.mirror[1][2] = offset_call.forward[1][1]

\* Both calls have been made on a pair with the smaller amount first.
C12_Witness ==
    /\ offset_call.amount1 > 0
    /\ offset_call.amount1 < offset_call.amount2
    /\ offset_call.forward = <<<<0, offset_call.amount2 - offset_call.amount1>>>>
    /\ offset_call.mirror = <<<<offset_call.amount2 - offset_call.amount1, 0>>>>

\* C13 (invalid event kind): reading an event whose kind is neither advance
\* nor payment ends the computation in failure with the ledger as it was
\* before that event; after the failure nothing more happens: no later
\* event is handled, the final accrual does not run and no snapshot is
\* produced.
C13_InvalidKindFails ==
    [][/\ (n_events' = n_events + 1
           /\ event'.type \notin {"advance", "payment"}) =>
              /\ pc' = "failed"
              /\ UNCHANGED ledger_vars
       /\ pc = "failed" => UNCHANGED vars
      ]_vars

\* The run has failed on its third event, after an advance and a payment
\* of interest, and the accrual to the day after the cutoff has not run.
C13_Witness ==
    /\ pc = "failed"
    /\ event.type = "refund"
    /\ n_events = 3
    /\ Len(advances) = 1
    /\ overall_interest_paid > 0
    /\ last_interest_date_calculated <= end_date

C15_Lifecycle ==
    [][/\ AdvanceStep =>
              /\ Len(advances') = Len(advances) + 1
              /\ NewRecord.id = event'.id
              /\ NewRecord.date = event'.date_created
       /\ ~AdvanceStep => Len(advances') = Len(advances)
       /\ Len(advances') >= Len(advances)
       /\ \A i \in 1..Len(advances) :
              /\ advances'[i].id = advances[i].id
              /\ advances'[i].date = advances[i].date
              /\ advances'[i].initial_amount = advances[i].initial_amount
       /\ \A i \in 1..Len(advances') : \A j \in 1..Len(advances') :
              i < j => advances'[i].date <= advances'[j].date
      ]_vars

\* The snapshot of a run whose payment retired both of its advances: both
\* records are still there.
C15_Witness ==
    /\ pc = "done"
    /\ event.type = "payment"
    /\ Len(advances) = 2
    /\ advances[1].initial_amount > 0
    /\ advances[2].initial_amount > 0
    /\ advances[1].current_balance = 0
    /\ advances[2].current_balance = 0

\* C16 (credit and debt never coexist): once an event has been processed, a
\* positive credit for future advances means no outstanding principal and
\* no interest payable.
C16_CreditExcludesDebt ==
    (n_events > 0 /\ overall_payments_for_future > 0) =>
        /\ overall_advance_balance = 0
        /\ overall_interest_payable_balance = 0

\* A payment has paid the interest, retired the advance and left a credit.
C16_Witness ==
    /\ event.type = "payment"
    /\ overall_payments_for_future > 0
    /\ overall_interest_paid > 0
    /\ Len(advances) = 1
    /\ advances[1].initial_amount > 0
    /\ advances[1].current_balance = 0

\* C17 (money conservation): the payments processed so far plus the
\* outstanding principal equal the interest paid plus the credit plus the
\* advances processed so far.
C17_MoneyConserved ==
    history.payments + overall_advance_balance =
        overall_interest_paid + overall_payments_for_future + history.advances

\* After three events the payments have gone to interest and to principal,
\* and principal is still outstanding.
C17_Witness ==
    /\ n_events = 3
    /\ history.payments > overall_interest_paid
    /\ overall_interest_paid > 0
    /\ overall_advance_balance > 0
    /\ overall_advance_balance < history.advances

\* C18 (per-advance bounds): every record's current_balance is between zero
\* and its initial_amount, and no step increases the current_balance of a
\* record.
C18_AdvanceBounds ==
    [][/\ \A i \in 1..Len(advances') :
              /\ 0 <= advances'[i].current_balance
              /\ advances'[i].current_balance <= advances'[i].initial_amount
       /\ \A i \in 1..Len(advances) :
              advances'[i].current_balance <= advances[i].current_balance
      ]_vars

\* Two payments in a row have each reduced the one advance, which is still
\* open.
C18_Witness ==
    /\ event.type = "payment"
    /\ n_events = 3
    /\ Len(advances) = 1
    /\ overall_interest_paid = 0
    /\ advances[1].current_balance > 0
    /\ event.amount > 0
    /\ event.amount < history.payments
    /\ history.payments =
           advances[1].initial_amount - advances[1].current_balance

\* C19 (interest conservation): interest payable plus interest paid is the
\* interest accrued so far, the sum over the accruals of principal x rate x
\* days; payments only move it from payable to paid.
C19_InterestConserved ==
    overall_interest_payable_balance + overall_interest_paid = history.interest

\* Interest has accrued over two intervals on two advances and has been
\* paid in part.
C19_Witness ==
    /\ event.type = "payment"
    /\ n_events = 3
    /\ Len(advances) = 2
    /\ advances[2].date > advances[1].date
    /\ event.date_created > advances[2].date
    /\ overall_interest_paid > 0
    /\ overall_interest_payable_balance > 0

====
